---- MODULE Spec2Model ----
(* Coordinate-ascent hyper-parameter search (optimize_gp_params) and the   *)
(* two cross-validation evaluators of src/optimize_parameters.py.          *)
EXTENDS Integers, Sequences, FiniteSets, TLC

(* ---------------------------------------------------------------------- *)
(* Bounds                                                                  *)
(* ---------------------------------------------------------------------- *)
MaxParams == 2
MaxCand == 2
MaxScore == 2
MaxCount == 3
MaxSamples == 4
MaxFolds == 3
MaxPred == 1
Scale == 10

VARIABLES
    \* the dataset and the splitter, shared by the optimizer and the evaluators
    X_len,           \* len(dataset.X_train)
    relevance,       \* None (regression) or a vector over {-1, 0, 1}
    y_train,         \* regression targets
    n_folds,         \* number of folds
    rng_split,       \* the fold of every eligible position that the splitter
                     \* seeded with random_state = 0 yields on this dataset
    \* optimize_gp_params
    grid,            \* sequence (in grid order) of candidate lists
    init,            \* initial value of every grid parameter
    cur_params,      \* current value per parameter
    changed,         \* changed flag per parameter
    changing_param,  \* index (0-based) of the axis swept next
    perf,            \* history dict: insertion-ordered sequence of [key, val]
    best_perf,       \* best performance so far
    pc,              \* "loop", "return", "done"
    stop,            \* why the loop was left: "none", "regressed", "single", "fixed"
    memo,            \* the evaluator: scores of the configurations evaluated so far
    result,          \* what optimize_gp_params returned
    sweeps,          \* loop iterations of the running call (saturating)
    evals,           \* evaluator calls per configuration in the running call
    run,             \* 1: first call of optimize_gp_params, 2: the same call repeated
    first_result,    \* what the first call returned
    init_score,      \* [score |-> the evaluator's score of the initial configuration alone]
    splits_used,     \* the fold partitions the evaluator calls were made on
    quiet,           \* accepted sweeps in a row that left their axis unchanged
    last_cfgs,       \* the cv_params built by the latest sweep
    \* cross_validate_gp / cross_validate_fewshot
    fewshot,         \* which evaluator is called
    oracle,          \* TRUE: the predictor returns the true label of every index
    cv_pc,           \* "idle", "start", "fold", "reduce", "done", "error"
    not_unnameable,  \* eligible sample indices, ascending
    gp_id,           \* number of GaussianProcess instances constructed
    scores,          \* pooled predictions, by eligible position
    fold_perf,       \* the list perf of cross_validate_fewshot
    folds,           \* the (train_ind, test_ind) pairs kfold.split yields
    fold_i,          \* the pair handled next
    fit_calls,       \* log of gp.fit calls
    predict_calls,   \* log of gp.predict_stored calls
    metric_idx,      \* sample indices whose label or prediction entered a metric
    cv_result        \* the evaluator's return value

dataVars == <<X_len, relevance, y_train, n_folds, rng_split>>

optVars == <<grid, init, cur_params, changed, changing_param,
             perf, best_perf, pc, stop, memo, result, sweeps, evals, run,
             first_result, init_score, splits_used, quiet, last_cfgs>>

cvVars == <<fewshot, oracle, cv_pc, not_unnameable, gp_id, scores, fold_perf,
            folds, fold_i, fit_calls, predict_calls, metric_idx, cv_result>>

vars == <<dataVars, optVars, cvVars>>

(* ---------------------------------------------------------------------- *)
(* Values                                                                  *)
(* ---------------------------------------------------------------------- *)
None == [none |-> TRUE]

\* relevance is None (a regression task): the vector without entries.
NoRelevance == <<>>

Min2(a, b) == IF a < b THEN a ELSE b

Range(s) == {s[i] : i \in DOMAIN s}

\* The members of a set of positions, ascending.
Ascending(S, m) == SelectSeq([p \in 1..m |-> p], LAMBDA p : p \in S)

\* a[ind]: numpy indexing of an array by an index array.
Take(a, ind) == [j \in 1..Len(ind) |-> a[ind[j]]]

\* Parameter values are labels: the code only compares them for equality and
\* uses them as dict keys. A candidate list of k values is <<1, ..., k>>, so a
\* value's label is its position in the list; 0 labels a value that is in no
\* candidate list.
CandLists == {[i \in 1..k |-> i] : k \in 1..MaxCand}

Grids == UNION {[1..n -> CandLists] : n \in 1..MaxParams}

\* Initial values of a grid: per parameter a candidate or the off-grid value.
Inits(g) == {f \in [1..Len(g) -> 0..MaxCand] : \A i \in 1..Len(g) : f[i] <= Len(g[i])}

\* -np.infty: below every score an evaluator can return.
NegInf == 0 - (MaxScore + 1)

\* Scores an evaluator returns: average precision (retrieval) is >= 0,
\* -RMSE (regression) is <= 0.
ScoreRange(rel) == IF rel # NoRelevance THEN 0..MaxScore ELSE (0 - MaxScore)..0

(* ---------------------------------------------------------------------- *)
(* Eligible samples and the fold splitter (lines 48-57, 84-93)             *)
(* ---------------------------------------------------------------------- *)
\* Variant: no sample is filtered out.
NotUnnameableAll(n, rel) == [i \in 1..n |-> i]

\* not_unnameable: all sample indices, or those with relevance != 0.
NotUnnameable(n, rel) ==
    IF rel = NoRelevance
    THEN [i \in 1..n |-> i]
    ELSE SelectSeq([i \in 1..n |-> i], LAMBDA i : rel[i] # 0)

\* The second argument of kfold.split: relevance[not_unnameable] or None.
SplitLabels(n, rel) ==
    IF rel = NoRelevance THEN NoRelevance ELSE Take(rel, NotUnnameable(n, rel))

CountIn(a, m, fold, y, c) ==
    Cardinality({p \in 1..m : a[p] = fold /\ (y = NoRelevance \/ y[p] = c)})

\* The fold assignments a shuffled splitter can yield for m samples: KFold
\* gives the first m % k folds m \div k + 1 samples and the others m \div k;
\* StratifiedKFold spreads every class over the folds with counts that differ
\* by at most one.
LegalSplits(m, k, y) ==
    IF y = NoRelevance
    THEN {a \in [1..m -> 1..k] :
            \A i \in 1..k :
                CountIn(a, m, i, NoRelevance, 0) = (m \div k) + (IF i <= m % k THEN 1 ELSE 0)}
    ELSE {a \in [1..m -> 1..k] :
            \A c \in {-1, 1} : \A i, j \in 1..k :
                CountIn(a, m, i, y, c) <= CountIn(a, m, j, y, c) + 1}

\* Variant: only the fold count is validated.
SplitFailsFoldCountOnly(m, k, y) == k < 2

\* kfold.split raises: fewer than 2 folds, more folds than samples, or (when
\* stratified) more folds than the members of every class.
SplitFails(m, k, y) ==
    \/ k < 2
    \/ k > m
    \/ /\ y # NoRelevance
       /\ \A c \in Range(y) : Cardinality({p \in 1..m : y[p] = c}) < k

\* Variant: an unseeded splitter, whose draws differ from one another.
SplitOfUnseeded(draw) ==
    IF draw % 2 = 1
    THEN rng_split
    ELSE [p \in DOMAIN rng_split |-> (rng_split[p] % n_folds) + 1]

\* Line 56 and 92: the splitter is seeded with random_state = 0, so every
\* draw yields the seed's fold assignment.
SplitOf(draw) == rng_split

\* The (train_ind, test_ind) pairs of a fold assignment, both ascending.
FoldPairs(a, m, k) ==
    [i \in 1..k |->
        [train_ind |-> Ascending({p \in 1..m : a[p] # i}, m),
         test_ind  |-> Ascending({p \in 1..m : a[p] = i}, m)]]

(* ---------------------------------------------------------------------- *)
(* optimize_gp_params                                                      *)
(* ---------------------------------------------------------------------- *)
\* Variant: the other parameters are taken from the initial configuration.
CvParamsFromInit(cur, cp, val) ==
    [i \in DOMAIN cur |-> IF i = cp + 1 THEN val ELSE init[i]]

\* cv_params of line 144: val on the swept axis, cur_params elsewhere.
CvParams(cur, cp, val) ==
    [i \in DOMAIN cur |-> IF i = cp + 1 THEN val ELSE cur[i]]

\* Variant: the last key in iteration order, whatever its score.
ArgMaxLastKey(keys, f) == keys[Len(keys)]

\* Variant: the last key, in iteration order, with maximal f.
ArgMaxLast(keys, f) ==
    keys[CHOOSE i \in 1..Len(keys) :
            /\ \A j \in 1..Len(keys) : f[keys[j]] <= f[keys[i]]
            /\ \A j \in (i + 1)..Len(keys) : f[keys[j]] < f[keys[i]]]

\* max(keys, key = f): the first key, in iteration order, with maximal f.
ArgMaxFirst(keys, f) ==
    keys[CHOOSE i \in 1..Len(keys) :
            /\ \A j \in 1..Len(keys) : f[keys[j]] <= f[keys[i]]
            /\ \A j \in 1..(i - 1) : f[keys[j]] < f[keys[i]]]

\* Variant: a sweep that only equals the best score also leaves the loop.
RegressedOrEqual(sweep_max, best) == sweep_max <= best

\* Variant: the regression test never fires.
RegressedNever(sweep_max, best) == FALSE

\* line 154: the regression test that leaves the loop.
Regressed(sweep_max, best) == sweep_max < best

\* Variant: no sweep counts as a change.
ChangedNever(best_val, cur_val) == FALSE

\* Variant: every sweep counts as a change.
ChangedAlways(best_val, cur_val) == TRUE

\* line 161: the changed flag of the swept axis.
Changed(best_val, cur_val) == best_val # cur_val

\* Variant: no early exit for a one-parameter grid.
SingleParamStopNever(n) == FALSE

\* line 166: a grid with fewer than two parameters is swept once.
SingleParamStop(n) == n < 2

\* Variant: the loop goes on only while every flag is set.
AllChanged(ch) == \A i \in DOMAIN ch : ch[i]

\* line 140: the loop condition.
AnyChanged(ch) == \E i \in DOMAIN ch : ch[i]

\* perf[key] = val on an insertion-ordered dict.
DictSet(d, k, v) ==
    IF \E i \in 1..Len(d) : d[i].key = k
    THEN [i \in 1..Len(d) |-> IF d[i].key = k THEN [key |-> k, val |-> v] ELSE d[i]]
    ELSE Append(d, [key |-> k, val |-> v])

\* Variant: the last of the history entries with the maximal score.
BestParamsLatest(d) ==
    d[CHOOSE i \in 1..Len(d) :
            /\ \A j \in 1..Len(d) : d[j].val <= d[i].val
            /\ \A j \in (i + 1)..Len(d) : d[j].val < d[i].val].key

\* Variant: the oldest history entry is returned.
BestParamsOldest(d) == d[1].key

\* line 169: max(perf.keys(), key = lambda p: perf[p]).
BestParams(d) ==
    d[CHOOSE i \in 1..Len(d) :
            /\ \A j \in 1..Len(d) : d[j].val <= d[i].val
            /\ \A j \in 1..(i - 1) : d[j].val < d[i].val].key

\* Variant: the stored score is reported without the sign flip.
ReturnScoreRaw(rel, best) == best

\* line 170: the reported score.
ReturnScore(rel, best) == IF rel # NoRelevance THEN best ELSE 0 - best

\* One more evaluator call on each of cfgs.
Bump(ev, cfgs) ==
    [c \in (DOMAIN ev) \cup cfgs |->
        IF c \in cfgs
        THEN Min2((IF c \in DOMAIN ev THEN ev[c] ELSE 0) + 1, MaxCount)
        ELSE ev[c]]

\* What an evaluator call is a function of: the configuration and the fold
\* partition it is scored on (dataset, relevance and n_folds are fixed).
EvalKey(cfg, draw) == <<cfg, SplitOf(draw)>>

\* The datasets the optimizer is run on.
OptDatasets ==
    {[X_len |-> 2, relevance |-> NoRelevance, n_folds |-> 2],
     [X_len |-> 4, relevance |-> <<1, 0, 1, -1>>, n_folds |-> 2],
     [X_len |-> 2, relevance |-> <<0, 0>>, n_folds |-> 2],
     [X_len |-> 2, relevance |-> NoRelevance, n_folds |-> 3],
     [X_len |-> 3, relevance |-> <<1, 0, -1>>, n_folds |-> 3],
     [X_len |-> 2, relevance |-> NoRelevance, n_folds |-> 1]}

\* Lines 146-149: the evaluator call raises when its splitter does.
EvalFails ==
    SplitFails(Len(NotUnnameable(X_len, relevance)), n_folds,
               SplitLabels(X_len, relevance))

CvIdle ==
    /\ fewshot = FALSE
    /\ oracle = FALSE
    /\ cv_pc = "idle"
    /\ not_unnameable = <<>>
    /\ gp_id = 0
    /\ scores = <<>>
    /\ fold_perf = <<>>
    /\ folds = <<>>
    /\ fold_i = 0
    /\ fit_calls = <<>>
    /\ predict_calls = <<>>
    /\ metric_idx = {}
    /\ cv_result = None

Init ==
    /\ \E d \in OptDatasets :
         /\ X_len = d.X_len
         /\ relevance = d.relevance
         /\ n_folds = d.n_folds
         /\ LET m == Len(NotUnnameable(d.X_len, d.relevance))
                y == SplitLabels(d.X_len, d.relevance)
            IN IF SplitFails(m, d.n_folds, y)
               THEN rng_split = <<>>
               ELSE rng_split \in LegalSplits(m, d.n_folds, y)
    /\ y_train = <<>>
    /\ grid \in Grids
    /\ init \in Inits(grid)
    /\ cur_params = init
    /\ changed = [i \in 1..Len(grid) |-> TRUE]
    /\ changing_param = 0
    /\ perf = <<>>
    /\ best_perf = NegInf
    /\ pc = "loop"
    /\ stop = "none"
    /\ memo = <<>>
    /\ result = None
    /\ sweeps = 0
    /\ evals = <<>>
    /\ run = 1
    /\ first_result = None
    /\ init_score = None
    /\ splits_used = {}
    /\ quiet = 0
    /\ last_cfgs = {}
    /\ CvIdle

\* One iteration of the while loop, lines 140-167.
Sweep ==
    /\ pc = "loop"
    /\ ~EvalFails
    /\ LET n      == Len(grid)
           cands  == grid[changing_param + 1]
           cfg(j) == CvParams(cur_params, changing_param, cands[j])
           key(j) == EvalKey(cfg(j), j)
           keys   == {key(j) : j \in 1..Len(cands)}
       IN \E f \in [keys \ DOMAIN memo -> ScoreRange(relevance)] :
            LET memo2     == f @@ memo
                cur_perfs == [v \in Range(cands) |->
                                memo2[key(CHOOSE j \in 1..Len(cands) : cands[j] = v)]]
                best_val  == ArgMaxFirst(cands, cur_perfs)
                ch2       == [changed EXCEPT ![changing_param + 1] =
                                 Changed(best_val, cur_params[changing_param + 1])]
                cur2      == [cur_params EXCEPT ![changing_param + 1] = best_val]
            IN /\ memo' = memo2
               /\ evals' = Bump(evals, {cfg(j) : j \in 1..Len(cands)})
               /\ splits_used' = splits_used \cup {k[2] : k \in keys}
               /\ sweeps' = Min2(sweeps + 1, MaxCount)
               /\ last_cfgs' = {cfg(j) : j \in 1..Len(cands)}
               /\ IF Regressed(cur_perfs[best_val], best_perf)
                  THEN /\ pc' = "return"
                       /\ stop' = "regressed"
                       /\ UNCHANGED <<cur_params, changed, changing_param, perf,
                                      best_perf, quiet>>
                  ELSE /\ best_perf' = cur_perfs[best_val]
                       /\ quiet' = (IF cur2 # cur_params
                                    THEN 0 ELSE Min2(quiet + 1, MaxCount))
                       /\ changed' = ch2
                       /\ cur_params' = cur2
                       /\ perf' = DictSet(perf, cur2, cur_perfs[best_val])
                       /\ changing_param' = (changing_param + 1) % n
                       /\ IF SingleParamStop(n)
                          THEN pc' = "return" /\ stop' = "single"
                          ELSE IF AnyChanged(ch2)
                               THEN pc' = "loop" /\ stop' = "none"
                               ELSE pc' = "return" /\ stop' = "fixed"
    /\ UNCHANGED <<grid, init, result, run, first_result, init_score>>
    /\ UNCHANGED <<dataVars, cvVars>>

\* The first evaluator call of a sweep raises (lines 146-149); nothing
\* catches it, so the call of optimize_gp_params ends without a result.
SweepRaises ==
    /\ pc = "loop"
    /\ EvalFails
    /\ pc' = "error"
    /\ UNCHANGED <<grid, init, cur_params, changed, changing_param, perf, best_perf,
                   stop, memo, result, sweeps, evals, run, first_result, init_score,
                   splits_used, quiet, last_cfgs>>
    /\ UNCHANGED <<dataVars, cvVars>>

\* lines 169-170.
Return ==
    /\ pc = "return"
    /\ result' = [params |-> BestParams(perf),
                  score  |-> ReturnScore(relevance, best_perf)]
    /\ pc' = "done"
    /\ UNCHANGED <<grid, init, cur_params, changed, changing_param, perf, best_perf,
                   stop, memo, sweeps, evals, run, first_result, init_score,
                   splits_used, quiet, last_cfgs>>
    /\ UNCHANGED <<dataVars, cvVars>>

\* The same call again: same dataset, grid, init and evaluator (lines 130-135).
Rerun ==
    /\ pc = "done"
    /\ run = 1
    /\ run' = 2
    /\ first_result' = result
    /\ cur_params' = init
    /\ changed' = [i \in 1..Len(grid) |-> TRUE]
    /\ changing_param' = 0
    /\ perf' = <<>>
    /\ best_perf' = NegInf
    /\ pc' = "loop"
    /\ stop' = "none"
    /\ result' = None
    /\ sweeps' = 0
    /\ evals' = <<>>
    /\ quiet' = 0
    /\ last_cfgs' = {}
    /\ UNCHANGED <<grid, init, memo, init_score, splits_used>>
    /\ UNCHANGED <<dataVars, cvVars>>

\* One evaluator call on the initial configuration alone (every parameter at
\* its init value), made after the optimizer returned.
EvalInit ==
    /\ pc = "done"
    /\ \E f \in [{EvalKey(init, 1)} \ DOMAIN memo -> ScoreRange(relevance)] :
         /\ memo' = f @@ memo
         /\ init_score' = [score |-> (f @@ memo)[EvalKey(init, 1)]]
    /\ pc' = "checked"
    /\ splits_used' = splits_used \cup {SplitOf(1)}
    /\ UNCHANGED <<grid, init, cur_params, changed, changing_param, perf, best_perf,
                   stop, result, sweeps, evals, run, first_result, quiet, last_cfgs>>
    /\ UNCHANGED <<dataVars, cvVars>>

Next == Sweep \/ SweepRaises \/ Return \/ Rerun \/ EvalInit

Spec == Init /\ [][Next]_vars

(* ---------------------------------------------------------------------- *)
(* cross_validate_gp and cross_validate_fewshot                            *)
(* ---------------------------------------------------------------------- *)
\* Floats: a fixed-point number with Scale units per 1, or NaN.
Num(v) == [nan |-> FALSE, v |-> v]

NaN == [nan |-> TRUE, v |-> 0]

\* Targets and predictions.
PredVals == 0..MaxPred

\* An unwritten cell of np.ndarray(...): a value no predictor returns.
Garbage == 0 - 1

RECURSIVE SumSeq(_)
SumSeq(q) == IF q = <<>> THEN 0 ELSE Head(q) + SumSeq(Tail(q))

ISqrt(x) == CHOOSE r \in 0..(x + 1) : r * r <= x /\ x < (r + 1) * (r + 1)

\* -math.sqrt(mean_squared_error(y_true, y_pred)) in fixed point.
NegRmse(y_true, y_pred) ==
    LET sse == SumSeq([j \in 1..Len(y_true) |->
                          (y_true[j] - y_pred[j]) * (y_true[j] - y_pred[j])])
    IN Num(0 - ISqrt((Scale * Scale * sse) \div Len(y_true)))

TruePos(y_true, y_score, t) ==
    Cardinality({j \in 1..Len(y_true) : y_true[j] = 1 /\ y_score[j] >= t})

FalsePos(y_true, y_score, t) ==
    Cardinality({j \in 1..Len(y_true) : y_true[j] # 1 /\ y_score[j] >= t})

\* Sum over the distinct score thresholds, descending from t, of
\* (recall step) * precision, in fixed point.
RECURSIVE ApSum(_, _, _, _)
ApSum(y_true, y_score, t, tp_prev) ==
    IF t < Garbage
    THEN 0
    ELSE IF \A j \in 1..Len(y_score) : y_score[j] # t
         THEN ApSum(y_true, y_score, t - 1, tp_prev)
         ELSE LET tp == TruePos(y_true, y_score, t)
                  fp == FalsePos(y_true, y_score, t)
              IN ((tp - tp_prev) * tp * Scale)
                     \div ((tp + fp) * TruePos(y_true, y_score, Garbage))
                 + ApSum(y_true, y_score, t - 1, tp)

\* average_precision_score(y_true, y_score); NaN without a positive label.
AveragePrecision(y_true, y_score) ==
    IF TruePos(y_true, y_score, Garbage) = 0
    THEN NaN
    ELSE Num(ApSum(y_true, y_score, MaxPred, 0))

\* np.mean(perf).
Mean(q) ==
    IF \E j \in 1..Len(q) : q[j].nan
    THEN NaN
    ELSE Num(SumSeq([j \in 1..Len(q) |-> q[j].v]) \div Len(q))

\* Variant: the fit is given every eligible sample.
FitIndAll(fs, pair) == pair.train_ind \o pair.test_ind

\* The positions the predictor is fitted on: train_ind (line 58), test_ind
\* in the few-shot evaluator (line 94).
FitInd(fs, pair) == IF fs THEN pair.test_ind ELSE pair.train_ind

\* The positions predicted: test_ind (line 59), train_ind when few-shot (line 95).
PredictInd(fs, pair) == IF fs THEN pair.train_ind ELSE pair.test_ind

\* The labels handed to gp.fit (lines 58, 94).
FitLabels(fs, rel, y, nu, pair) ==
    IF rel # NoRelevance
    THEN Take(rel, Take(nu, FitInd(fs, pair)))
    ELSE Take(y, FitInd(fs, pair))

\* What gp.predict_stored(idx) can return: one prediction per index, in the
\* order of idx; the true labels when the predictor is exact.
Predictions(orc, rel, y, idx) ==
    IF orc
    THEN {[j \in 1..Len(idx) |-> IF rel # NoRelevance THEN rel[idx[j]] ELSE y[idx[j]]]}
    ELSE [1..Len(idx) -> PredVals]

\* Variant: the predictions of a fold are stored from the first cell on.
StoreFromStart(sc, ind, preds) ==
    [p \in 1..Len(sc) |-> IF p <= Len(ind) THEN preds[p] ELSE sc[p]]

\* scores[test_ind] = predictions (line 59).
Store(sc, ind, preds) ==
    [p \in 1..Len(sc) |->
        IF \E j \in 1..Len(ind) : ind[j] = p
        THEN preds[CHOOSE j \in 1..Len(ind) : ind[j] = p]
        ELSE sc[p]]

\* The score of one few-shot fold (line 96).
FoldScore(rel, y, nu, pair, preds) ==
    IF rel # NoRelevance
    THEN AveragePrecision(Take(rel, Take(nu, pair.train_ind)), preds)
    ELSE NegRmse(Take(y, pair.train_ind), preds)

\* The pooled score of the standard evaluator (line 61).
PooledScore(rel, y, nu, sc) ==
    IF rel # NoRelevance
    THEN AveragePrecision(Take(rel, nu), sc)
    ELSE NegRmse(y, sc)

OptIdle ==
    /\ grid = <<>>
    /\ init = <<>>
    /\ cur_params = <<>>
    /\ changed = <<>>
    /\ changing_param = 0
    /\ perf = <<>>
    /\ best_perf = NegInf
    /\ pc = "idle"
    /\ stop = "none"
    /\ memo = <<>>
    /\ result = None
    /\ sweeps = 0
    /\ evals = <<>>
    /\ run = 0
    /\ first_result = None
    /\ init_score = None
    /\ splits_used = {}
    /\ quiet = 0
    /\ last_cfgs = {}

\* One evaluator call on any dataset.
InitCV ==
    /\ X_len \in 1..MaxSamples
    /\ relevance \in {NoRelevance} \cup [1..X_len -> {-1, 0, 1}]
    /\ y_train \in (IF relevance = NoRelevance THEN [1..X_len -> PredVals] ELSE {<<>>})
    /\ n_folds \in 1..MaxFolds
    /\ LET m == Len(NotUnnameable(X_len, relevance))
           y == SplitLabels(X_len, relevance)
       IN IF SplitFails(m, n_folds, y)
          THEN rng_split = <<>>
          ELSE rng_split \in LegalSplits(m, n_folds, y)
    /\ fewshot \in BOOLEAN
    /\ oracle \in BOOLEAN
    /\ cv_pc = "start"
    /\ not_unnameable = <<>>
    /\ gp_id = 0
    /\ scores = <<>>
    /\ fold_perf = <<>>
    /\ folds = <<>>
    /\ fold_i = 0
    /\ fit_calls = <<>>
    /\ predict_calls = <<>>
    /\ metric_idx = {}
    /\ cv_result = None
    /\ OptIdle

\* Lines 48-57 and 84-93: the eligible samples, the predictor, the splitter.
CVStart ==
    /\ cv_pc = "start"
    /\ LET nu == NotUnnameable(X_len, relevance)
           m  == Len(nu)
       IN /\ not_unnameable' = nu
          /\ gp_id' = gp_id + 1
          /\ scores' = (IF fewshot THEN <<>> ELSE [p \in 1..m |-> Garbage])
          /\ IF SplitFails(m, n_folds, SplitLabels(X_len, relevance))
             THEN cv_pc' = "error" /\ folds' = <<>> /\ fold_i' = 0
             ELSE /\ cv_pc' = "fold"
                  /\ folds' = FoldPairs(SplitOf(1), m, n_folds)
                  /\ fold_i' = 1
    /\ UNCHANGED <<fewshot, oracle, fold_perf, fit_calls, predict_calls, metric_idx,
                   cv_result>>
    /\ UNCHANGED <<dataVars, optVars>>

\* One iteration of the fold loop: lines 58-59, or 94-96 when few-shot.
FoldStep ==
    /\ cv_pc = "fold"
    /\ LET pair == folds[fold_i]
           fidx == Take(not_unnameable, FitInd(fewshot, pair))
           pidx == Take(not_unnameable, PredictInd(fewshot, pair))
       IN /\ fit_calls' = Append(fit_calls,
                [gp |-> gp_id, idx |-> fidx,
                 labels |-> FitLabels(fewshot, relevance, y_train, not_unnameable, pair)])
          /\ predict_calls' = Append(predict_calls, [gp |-> gp_id, idx |-> pidx])
          /\ \E preds \in Predictions(oracle, relevance, y_train, pidx) :
                IF fewshot
                THEN /\ fold_perf' = Append(fold_perf,
                            FoldScore(relevance, y_train, not_unnameable, pair, preds))
                     /\ metric_idx' = metric_idx \cup
                            (IF relevance # NoRelevance
                             THEN Range(Take(not_unnameable, pair.train_ind))
                             ELSE Range(pair.train_ind))
                     /\ UNCHANGED scores
                ELSE /\ scores' = Store(scores, pair.test_ind, preds)
                     /\ UNCHANGED <<fold_perf, metric_idx>>
    /\ fold_i' = fold_i + 1
    /\ cv_pc' = (IF fold_i = Len(folds) THEN "reduce" ELSE "fold")
    /\ UNCHANGED <<fewshot, oracle, not_unnameable, gp_id, folds, cv_result>>
    /\ UNCHANGED <<dataVars, optVars>>

\* Line 61, or line 98 when few-shot.
CVReturn ==
    /\ cv_pc = "reduce"
    /\ IF fewshot
       THEN /\ cv_result' = Mean(fold_perf)
            /\ UNCHANGED metric_idx
       ELSE /\ cv_result' = PooledScore(relevance, y_train, not_unnameable, scores)
            /\ metric_idx' = (IF relevance # NoRelevance
                              THEN Range(not_unnameable)
                              ELSE 1..Len(y_train))
    /\ cv_pc' = "done"
    /\ UNCHANGED <<fewshot, oracle, not_unnameable, gp_id, scores, fold_perf, folds,
                   fold_i, fit_calls, predict_calls>>
    /\ UNCHANGED <<dataVars, optVars>>

NextCV == CVStart \/ FoldStep \/ CVReturn

SpecCV == InitCV /\ [][NextCV]_vars

\* The optimizer runs to completion: the loop body and the return statement
\* are taken whenever they can be.
FairSpec == Spec /\ WF_vars(Sweep) /\ WF_vars(SweepRaises) /\ WF_vars(Return)

TypeOK == pc \in {"idle", "loop", "return", "error", "done", "checked"}

(* ---------------------------------------------------------------------- *)
(* Claims about optimize_gp_params                                         *)
(* ---------------------------------------------------------------------- *)
Returned == pc \in {"done", "checked"}

InGrid(i) == init[i] \in Range(grid[i])

\* C1 as stated: for any grid and any initial configuration, the score the
\* optimizer ends with (best_perf, before the sign flip) is at least the
\* evaluator's score of the initial configuration itself.
C1_AnyInit == (pc = "checked") => (best_perf >= init_score.score)

\* C1 amended: when the initial value of the grid's first parameter is one
\* of that parameter's candidates, the score the optimizer ends with is at
\* least the evaluator's score of the initial configuration itself.
C1_FirstAxisInGrid == (pc = "checked" /\ InGrid(1)) => (best_perf >= init_score.score)

C1_Witness ==
    /\ pc = "checked"
    /\ InGrid(1)
    /\ Len(grid) = 2
    /\ ~InGrid(2)
    /\ best_perf > init_score.score

\* The scenario of C2: regression, grid {length_scale: [1, 10]}, init
\* {length_scale: 1}; the candidates are labelled 1 and 2 by position, and
\* the second one has the lower RMSE, i.e. the higher evaluator score.
C2_Scenario ==
    /\ Returned
    /\ relevance = NoRelevance
    /\ grid = << <<1, 2>> >>
    /\ init = << 1 >>
    /\ memo[EvalKey(<<2>>, 2)] > memo[EvalKey(<<1>>, 1)]

\* C2 as stated: in the scenario the optimizer returns the second candidate
\* with a score equal to -RMSE of that candidate, which is the evaluator's
\* score of it.
C2_NegatedRmse ==
    C2_Scenario =>
        (result.params = <<2>> /\ result.score = memo[EvalKey(<<2>>, 2)])

\* C2 amended: in the scenario the optimizer returns the second candidate
\* with a score equal to +RMSE of that candidate, the negation of the
\* evaluator's score of it.
C2_PositiveRmse ==
    C2_Scenario =>
        (result.params = <<2>> /\ result.score = 0 - memo[EvalKey(<<2>>, 2)])

C2_Witness == C2_Scenario /\ result.score > 0

\* C3: the returned configuration is a history entry with the maximal
\* recorded score, and the returned score is that entry's recorded score,
\* as it is for retrieval and negated for regression, after every kind of stop.
C3_ReturnsBestEntry ==
    Returned =>
        \E i \in 1..Len(perf) :
            /\ perf[i].key = result.params
            /\ \A j \in 1..Len(perf) : perf[j].val <= perf[i].val
            /\ result.score = (IF relevance # NoRelevance THEN perf[i].val ELSE 0 - perf[i].val)

C3_Witness ==
    /\ pc = "done"
    /\ stop = "regressed"
    /\ relevance = NoRelevance
    /\ result.score > 0

\* C4: on a grid with one parameter the optimizer makes one sweep, evaluates
\* every candidate exactly once and returns a candidate with the maximal
\* score on that axis, whether or not it differs from the initial value.
C4_SingleSweep ==
    (Len(grid) = 1 /\ pc \in {"return", "done", "checked"}) =>
        /\ sweeps = 1
        /\ \A j \in 1..Len(grid[1]) : evals[<< grid[1][j] >>] = 1
        /\ Returned =>
            /\ result.params[1] \in Range(grid[1])
            /\ \A j \in 1..Len(grid[1]) :
                  memo[EvalKey(<< grid[1][j] >>, j)]
                      <= memo[EvalKey(result.params, result.params[1])]

C4_Witness ==
    /\ pc = "done"
    /\ Len(grid) = 1
    /\ Len(grid[1]) = MaxCand
    /\ result.params # init
    /\ InGrid(1)

\* C5: with an evaluator that returns a score for every configuration, the
\* loop always ends, by a fixed point, by the single-parameter stop or by the
\* regression test, and the call returns.
C5_Terminates ==
    (pc = "loop" /\ ~EvalFails)
        ~> (pc = "done" /\ stop \in {"fixed", "single", "regressed"})

C5_Witness ==
    /\ pc = "done"
    /\ stop = "fixed"
    /\ sweeps = MaxCount
    /\ \E i, j \in 1..Len(perf) : i # j /\ perf[i].val = perf[j].val

(* ---------------------------------------------------------------------- *)
(* Claims about the evaluators                                             *)
(* ---------------------------------------------------------------------- *)
Calls == 1..Len(fit_calls)

Eligible == Range(not_unnameable)

\* C6: in both evaluators no sample with relevance 0 is passed to fit or to
\* predict in any fold, and none contributes to the metric.
C6_NoUnnameableSample ==
    (relevance # NoRelevance) =>
        /\ \A c \in Calls :
              /\ \A i \in Range(fit_calls[c].idx) : relevance[i] # 0
              /\ \A i \in Range(predict_calls[c].idx) : relevance[i] # 0
        /\ \A i \in metric_idx : relevance[i] # 0

C6_Witness ==
    /\ cv_pc = "done"
    /\ fewshot
    /\ relevance # NoRelevance
    /\ relevance[1] = 0
    /\ Len(not_unnameable) = MaxSamples - 1
    /\ metric_idx = Eligible

\* C7: in one cross_validate_gp call the held-out index sets of the folds
\* are pairwise disjoint and cover the eligible set, every eligible sample is
\* predicted exactly once, and no fold is fitted on a sample it predicts.
C7_FoldsPartition ==
    (~fewshot) =>
        /\ \A c \in Calls :
              Range(fit_calls[c].idx) \cap Range(predict_calls[c].idx) = {}
        /\ \A c, d \in Calls :
              c # d => Range(predict_calls[c].idx) \cap Range(predict_calls[d].idx) = {}
        /\ (cv_pc \in {"reduce", "done"}) =>
              /\ UNION {Range(predict_calls[c].idx) : c \in Calls} = Eligible
              /\ \A i \in Eligible :
                    Cardinality({<<c, j>> \in Calls \X (1..MaxSamples) :
                                    /\ j <= Len(predict_calls[c].idx)
                                    /\ predict_calls[c].idx[j] = i}) = 1

C7_Witness ==
    /\ cv_pc = "done"
    /\ ~fewshot
    /\ relevance # NoRelevance
    /\ Len(not_unnameable) < X_len
    /\ Len(not_unnameable) > n_folds
    /\ relevance[1] = 0

\* C8 as stated: the few-shot evaluator fits every fold on its test
\* partition, which is the smaller one (not larger than the train
\* partition), predicts the train partition, scores each fold on the
\* predicted subset, and returns the mean of exactly n_folds fold scores.
C8_FitsSmallerPartition ==
    fewshot =>
        /\ \A c \in Calls :
              /\ fit_calls[c].idx = Take(not_unnameable, folds[c].test_ind)
              /\ predict_calls[c].idx = Take(not_unnameable, folds[c].train_ind)
              /\ Len(fit_calls[c].idx) <= Len(predict_calls[c].idx)
        /\ (cv_pc = "done") =>
              /\ Len(fold_perf) = n_folds
              /\ cv_result = Mean(fold_perf)

\* C9: for a regression dataset and a predictor that returns the true
\* target, cross_validate_gp returns 0 and the pooled predictions are cell
\* by cell the targets.
C9_ExactPredictorScoresZero ==
    (cv_pc = "done" /\ ~fewshot /\ relevance = NoRelevance /\ oracle) =>
        /\ cv_result = Num(0)
        /\ \A p \in 1..X_len : scores[p] = y_train[p]

C9_Witness ==
    /\ cv_pc = "done"
    /\ ~fewshot
    /\ relevance = NoRelevance
    /\ oracle
    /\ X_len = MaxSamples
    /\ y_train[1] # y_train[X_len]
    /\ folds[1].test_ind[1] # 1
    /\ n_folds = MaxFolds

EligibleCount ==
    Cardinality({i \in 1..X_len : relevance = NoRelevance \/ relevance[i] # 0})

\* C11: when there is no eligible sample, when n_folds exceeds the number of
\* eligible samples or when n_folds < 2, no evaluator call returns a score
\* and optimize_gp_params ends by the raised error, without a configuration
\* and without a score.
C11_FailurePropagates ==
    (pc # "idle" /\ (EligibleCount = 0 \/ n_folds > EligibleCount \/ n_folds < 2)) =>
        /\ pc \in {"loop", "error"}
        /\ memo = <<>>
        /\ perf = <<>>
        /\ result = None

C11_Witness ==
    /\ pc = "error"
    /\ relevance # NoRelevance
    /\ EligibleCount > 0
    /\ n_folds > EligibleCount

\* The step is one iteration of the loop that evaluated its candidates.
SweepStep == pc = "loop" /\ pc' # "error"

\* The candidates of the axis swept by the step, and their scores.
SweptCands == grid[changing_param + 1]

SweptScore(j) == memo'[EvalKey(CvParams(cur_params, changing_param, SweptCands[j]), j)]

SweepMax ==
    SweptScore(CHOOSE i \in 1..Len(SweptCands) :
                   \A j \in 1..Len(SweptCands) : SweptScore(j) <= SweptScore(i))

\* C12: within one call best_perf starts at -infinity, never decreases from
\* one sweep to the next, is only overwritten by a sweep maximum that is not
\* lower than it, and is left untouched by a regression-triggered stop.
C12_BestPerfMonotone ==
    /\ [](sweeps = 0 => best_perf = NegInf)
    /\ [][ /\ (run' = run) => (best_perf' >= best_perf)
           /\ (best_perf' # best_perf /\ run' = run) =>
                 (SweepStep /\ best_perf' = SweepMax /\ SweepMax >= best_perf)
           /\ (stop' = "regressed") => (best_perf' = best_perf) ]_vars

C12_Witness ==
    /\ pc = "done"
    /\ stop = "regressed"
    /\ Len(perf) = 1
    /\ best_perf = perf[1].val
    /\ best_perf > NegInf + 1

\* C13: a sweep whose maximal score is strictly below best_perf stops the
\* loop at once and leaves the current configuration, best_perf, the changed
\* flags, the axis index and the history unchanged; a sweep whose maximal
\* score equals best_perf is adopted instead.
C13_RegressionStopFrame ==
    [][ SweepStep =>
          IF SweepMax < best_perf
          THEN /\ pc' = "return"
               /\ stop' = "regressed"
               /\ UNCHANGED <<cur_params, best_perf, changed, changing_param, perf>>
          ELSE /\ stop' # "regressed"
               /\ best_perf' = SweepMax
               /\ changing_param' = (changing_param + 1) % Len(grid)
               /\ \E j \in 1..Len(SweptCands) :
                     /\ SweptScore(j) = SweepMax
                     /\ cur_params' = CvParams(cur_params, changing_param, SweptCands[j])
               /\ \E i \in 1..Len(perf') :
                     perf'[i] = [key |-> cur_params', val |-> SweepMax] ]_vars

C13_Witness ==
    /\ pc = "loop"
    /\ sweeps = 2
    /\ Len(perf) = 2
    /\ perf[1].val = perf[2].val

\* C14: the value adopted by a sweep has the maximal score on the swept
\* axis, and among tied candidates it is the one listed earliest, also when
\* the current value is a tied candidate listed later.
C14_StableArgMax ==
    [][ (SweepStep /\ stop' # "regressed") =>
          \E j \in 1..Len(SweptCands) :
              /\ cur_params'[changing_param + 1] = SweptCands[j]
              /\ \A i \in 1..Len(SweptCands) : SweptScore(i) <= SweptScore(j)
              /\ \A i \in 1..(j - 1) : SweptScore(i) < SweptScore(j) ]_vars

C14_Witness ==
    /\ sweeps = 1
    /\ pc \in {"loop", "return"}
    /\ Len(grid[1]) = MaxCand
    /\ init[1] = grid[1][MaxCand]
    /\ cur_params[1] = grid[1][1]
    /\ memo[EvalKey(init, MaxCand)] = memo[EvalKey(cur_params, 1)]

\* C15: on a grid with n >= 2 parameters the loop ends by fixed point exactly
\* when the n most recent sweeps all left their axis unchanged: never before
\* every axis has been swept, and never later than the n-th consecutive
\* sweep without a change.
C15_FixedPointExact ==
    (Len(grid) >= 2) =>
        /\ (stop = "fixed") => (quiet >= Len(grid) /\ sweeps >= Len(grid))
        /\ (pc = "loop") => (quiet < Len(grid))
        /\ (pc \in {"return", "done", "checked"} /\ quiet >= Len(grid)) =>
               (stop = "fixed")

C15_Witness ==
    /\ stop = "fixed"
    /\ Len(grid) = 2
    /\ sweeps = 3
    /\ quiet = 2
    /\ cur_params # init

\* C16: the i-th accepted sweep is over axis i mod n; every configuration
\* evaluated by a sweep is total and equals the current configuration off
\* the swept axis, with one configuration per candidate; an accepted sweep
\* changes the current configuration on the swept axis only.
C16_AxisFrame ==
    /\ []((pc = "loop" /\ sweeps < MaxCount) => (changing_param = sweeps % Len(grid)))
    /\ [][ SweepStep =>
             /\ \A c \in last_cfgs' :
                   /\ DOMAIN c = 1..Len(grid)
                   /\ \A i \in 1..Len(grid) :
                         (i # changing_param + 1) => (c[i] = cur_params[i])
             /\ {c[changing_param + 1] : c \in last_cfgs'} = Range(SweptCands)
             /\ \A i \in 1..Len(grid) :
                   (i # changing_param + 1) => (cur_params'[i] = cur_params[i])
             /\ (stop' # "regressed") =>
                   (changing_param' = (changing_param + 1) % Len(grid)) ]_vars

C16_Witness ==
    /\ pc = "loop"
    /\ Len(grid) = 2
    /\ sweeps = 2
    /\ changing_param = 0
    /\ cur_params[1] # init[1]
    /\ cur_params[2] # init[2]
    /\ \A c \in last_cfgs : c[1] = cur_params[1]

\* The score recorded for axis a's j-th candidate with every other parameter
\* at its current value.
AxisKey(a, j) == EvalKey(CvParams(cur_params, a - 1, grid[a][j]), j)

\* C18: after a fixed-point stop on a grid with n >= 2 parameters the
\* current configuration is coordinate-wise optimal: on every axis the
\* current value is the earliest-listed candidate with the maximal score
\* among the axis's candidates, the other parameters at their final values.
C18_CoordinateWiseOptimal ==
    (stop = "fixed" /\ Len(grid) >= 2) =>
        \A a \in 1..Len(grid) :
            \E j \in 1..Len(grid[a]) :
                /\ cur_params[a] = grid[a][j]
                /\ \A i \in 1..Len(grid[a]) :
                      /\ AxisKey(a, i) \in DOMAIN memo
                      /\ memo[AxisKey(a, i)] <= memo[AxisKey(a, j)]
                /\ \A i \in 1..(j - 1) : memo[AxisKey(a, i)] < memo[AxisKey(a, j)]

C18_Witness ==
    /\ stop = "fixed"
    /\ pc = "done"
    /\ Len(grid) = 2
    /\ \A a \in 1..2 : Len(grid[a]) = MaxCand /\ cur_params[a] = grid[a][MaxCand]
    /\ \A a \in 1..2 : init[a] # cur_params[a]

\* C19 as stated: whenever the optimizer returns, the returned configuration
\* is the final current configuration, also when several history entries
\* share the maximal score.
C19_ReturnsFinalConfig == (Returned /\ result # None) => (result.params = cur_params)

\* C19, amended: the returned configuration is the earliest-recorded history
\* entry with the maximal score; the final current configuration has that
\* same score, and it is the one returned when no earlier entry shares it.
C19_ReturnsEarliestBest ==
    (Returned /\ result # None) =>
        \E i, c \in 1..Len(perf) :
            /\ perf[c].key = cur_params
            /\ perf[c].val = best_perf
            /\ \A j \in 1..Len(perf) : perf[j].val <= best_perf
            /\ perf[i].key = result.params
            /\ perf[i].val = best_perf
            /\ \A j \in 1..(i - 1) : perf[j].val < best_perf
            /\ i <= c
            /\ (\A j \in 1..(c - 1) : perf[j].val < best_perf) => (result.params = cur_params)

C19_Witness ==
    /\ Returned
    /\ result # None
    /\ result.params # cur_params
    /\ stop = "fixed"

\* C20: with an initial configuration that lies in the grid on every axis
\* the regression test never fires: every sweep's maximal score is at least
\* best_perf, and the loop ends by fixed point or by the single-parameter stop.
C20_NoRegressionInGrid ==
    /\ []((\A i \in 1..Len(grid) : InGrid(i)) => (stop # "regressed"))
    /\ [][ (SweepStep /\ \A i \in 1..Len(grid) : InGrid(i)) =>
              (SweepMax >= best_perf /\ stop' \in {"none", "fixed", "single"}) ]_vars

C20_Witness ==
    /\ pc = "done"
    /\ stop = "fixed"
    /\ \A i \in 1..Len(grid) : InGrid(i)
    /\ Len(grid) = 2
    /\ cur_params # init
    /\ Len(perf) = 2

\* C17: in both evaluators every fold is fitted on its own predictor
\* instance: within one evaluator call no instance receives more than one
\* fit call.
C17_FreshInstancePerFold ==
    \A c, d \in Calls : (c # d) => (fit_calls[c].gp # fit_calls[d].gp)
====
